---- MODULE Spec2Model ----
(***************************************************************************)
(* Model of the Mandelbrot renderer of src/src/main.rs: the escape-time     *)
(* evaluator, the pixel-to-plane mapping, the sequential renderer and the   *)
(* two parallel dispatchers (crossbeam bands, rayon rows), and main's       *)
(* render-then-write sequence.                                              *)
(*                                                                          *)
(* f64 is modelled as a binary floating-point number with a MantissaBits    *)
(* wide significand and round-to-nearest-even after every operation (the    *)
(* IEEE 754 rule f64 follows with 53 bits).  The exponent is unbounded:     *)
(* the inputs are chosen so that f64 would neither overflow nor underflow.  *)
(***************************************************************************)
EXTENDS Integers, Sequences, FiniteSets, TLC

\* ------------------------------------------------------------------ bounds
\* Width of the significand of the modelled f64 (53 in the program).
MantissaBits == 8

\* ------------------------------------------------------------- f64 values
\* A float is <<m, e>> and stands for m * 2^e; it is 0 (<<0, 0>>) or has
\* 2^(MantissaBits-1) <= |m| < 2^MantissaBits.
Abs(n) == IF n < 0 THEN -n ELSE n

Sgn(n) == IF n < 0 THEN -1 ELSE 1

\* Number of binary digits of a > 0.
BitLen(a) == CHOOSE k \in 1..30 : a < 2^k /\ (k = 1 \/ a >= 2^(k-1))

\* n * 2^e rounded to the nearest float, ties to the even significand.
Round(n, e) ==
  IF n = 0 THEN <<0, 0>>
  ELSE LET a == Abs(n)
           k == BitLen(a)
       IN IF k <= MantissaBits
          THEN <<Sgn(n) * a * 2^(MantissaBits - k), e - (MantissaBits - k)>>
          ELSE LET s    == k - MantissaBits
                   q    == a \div 2^s
                   r    == a % 2^s
                   half == 2^(s-1)
                   up   == r > half \/ (r = half /\ q % 2 = 1)
                   q2   == IF up THEN q + 1 ELSE q
               IN IF q2 = 2^MantissaBits
                  THEN <<Sgn(n) * 2^(MantissaBits-1), e + s + 1>>
                  ELSE <<Sgn(n) * q2, e + s>>

\* `n as f64` for a usize n (exact while n < 2^MantissaBits).
FromInt(n) == Round(n, 0)

FNeg(a) == <<-a[1], a[2]>>

\* a + b, one rounding.
FAdd(a, b) ==
  IF a[1] = 0 THEN b
  ELSE IF b[1] = 0 THEN a
  ELSE LET hi == IF a[2] >= b[2] THEN a ELSE b
           lo == IF a[2] >= b[2] THEN b ELSE a
           d  == hi[2] - lo[2]
       IN IF d > MantissaBits + 2 THEN hi
          ELSE Round(hi[1] * 2^d + lo[1], lo[2])

FSub(a, b) == FAdd(a, FNeg(b))

\* a * b, one rounding.
FMul(a, b) == Round(a[1] * b[1], a[2] + b[2])

\* a / b for b # 0, one rounding: the quotient keeps MantissaBits + 2 digits
\* and a sticky digit that records a non-zero remainder.
FDiv(a, b) ==
  IF a[1] = 0 THEN <<0, 0>>
  ELSE LET n == Abs(a[1]) * 2^(MantissaBits + 2)
           d == Abs(b[1])
           q == n \div d
           t == IF n % d = 0 THEN 0 ELSE 1
       IN Round(Sgn(a[1]) * Sgn(b[1]) * (2 * q + t),
                a[2] - b[2] - (MantissaBits + 2) - 1)

\* a > b
FGt(a, b) == FSub(a, b)[1] > 0

\* A dyadic literal n / 2^k, rounded as the parser would round it.
Lit(n, k) == Round(n, -k)

\* ------------------------------------------------------------ num::Complex
\* Complex<f64> is <<re, im>>.
CAdd(a, b) == <<FAdd(a[1], b[1]), FAdd(a[2], b[2])>>

CMul(a, b) == <<FSub(FMul(a[1], b[1]), FMul(a[2], b[2])),
                FAdd(FMul(a[1], b[2]), FMul(a[2], b[1]))>>

norm_sqr(z) == FAdd(FMul(z[1], z[1]), FMul(z[2], z[2]))

\* -------------------------------------------------------------- escape_time
\* Option<u32>: None is -1, Some(i) is i.
None == -1

\* The loop state of escape_time is <<z, i, ret>>, ret = Running until the
\* loop returns Some(ret).
Running == -2

\* escape_body returning the 1-based count of iterations.
escape_body_one_based(c, s) ==
  IF s[3] # Running THEN s
  ELSE LET z2 == CAdd(CMul(s[1], s[1]), c)
       IN IF FGt(norm_sqr(z2), FromInt(4)) THEN <<z2, s[2], s[2] + 1>>
          ELSE <<z2, s[2] + 1, Running>>

\* One pass of the body of `for i in 0..limit`.
escape_body(c, s) ==
  IF s[3] # Running THEN s
  ELSE LET z2 == CAdd(CMul(s[1], s[1]), c)
       IN IF FGt(norm_sqr(z2), FromInt(4)) THEN <<z2, s[2], s[2]>>
          ELSE <<z2, s[2] + 1, Running>>

\* n consecutive passes of the loop body (split in halves to keep the
\* evaluation shallow).
RECURSIVE escape_loop(_, _, _)
escape_loop(c, s, n) ==
  IF n = 0 THEN s
  ELSE IF n = 1 THEN escape_body(c, s)
  ELSE LET h   == n \div 2
           mid == escape_loop(c, s, h)
       IN IF mid[3] # Running THEN mid ELSE escape_loop(c, mid, n - h)

escape_time(c, limit) ==
  LET s == escape_loop(c, <<<<<<0, 0>>, <<0, 0>>>>, 0, Running>>, limit)
  IN IF s[3] = Running THEN None ELSE s[3]

\* ----------------------------------------------------------- pixel_to_point
\* pixel_to_point with the imaginary axis growing downward.
pixel_to_point_y_up(bnds, pixel, ul, lr) ==
  LET width  == FSub(lr[1], ul[1])
      height == FSub(ul[2], lr[2])
  IN <<FAdd(ul[1],
            FDiv(FMul(FromInt(pixel[1]), width), FromInt(bnds[1]))),
       FAdd(ul[2],
            FDiv(FMul(FromInt(pixel[2]), height), FromInt(bnds[2])))>>

pixel_to_point(bnds, pixel, ul, lr) ==
  LET width  == FSub(lr[1], ul[1])
      height == FSub(ul[2], lr[2])
  IN <<FAdd(ul[1],
            FDiv(FMul(FromInt(pixel[1]), width), FromInt(bnds[1]))),
       FSub(ul[2],
            FDiv(FMul(FromInt(pixel[2]), height), FromInt(bnds[2])))>>

\* ------------------------------------------------------------------ render
\* The fixed iteration limit render passes to escape_time.
Limit == 255

\* Shade without the inversion: the count itself.
Shade_count(r) == IF r = None THEN 0 ELSE r % 256

\* `match escape_time(point, 255) { None => 0, Some(count) => 255 - count as u8 }`
Shade(r) == IF r = None THEN 0 ELSE 255 - (r % 256)

\* The k-th pass (k = 0, 1, ...) of render's nested loops, rows outermost:
\* the index it writes and the byte it writes there.
render_index(bnds, k) ==
  LET row    == k \div bnds[1]
      column == k % bnds[1]
  IN row * bnds[1] + column

\* ------------------------------------------------------------ chunks_mut
\* chunks_mut whose slices run one byte into the next.
chunks_mut_overlap(len, size) ==
  LET n == (len + size - 1) \div size
  IN [i \in 1..n |->
        <<(i - 1) * size,
          IF i * size + 1 <= len THEN size + 1 ELSE len - (i - 1) * size>>]

\* pixels.chunks_mut(size) on a buffer of length len, size > 0: the slices in
\* order, each <<offset, length>>; all have length size but the last, which
\* holds what is left.
chunks_mut(len, size) ==
  LET n == (len + size - 1) \div size
  IN [i \in 1..n |->
        <<(i - 1) * size,
          IF i * size <= len THEN size ELSE len - (i - 1) * size>>]

\* ------------------------------------------------------ render_by_crossbeam
threads == 8

rows_per_band(bnds) == bnds[2] \div threads + 1

\* A band task, as spawned: its slice <<offset, length>> of the buffer, the
\* arguments of its render call, the number of loop passes it has made (next)
\* and whether it is running, done or has panicked.
BandTask(slice, band_bounds, band_upper_left, band_lower_right) ==
  [slice |-> slice, bounds |-> band_bounds,
   upper_left |-> band_upper_left, lower_right |-> band_lower_right,
   next |-> 0, status |-> "running"]

\* crossbeam_bands taking every band to be rows_per_band high.
crossbeam_bands_full_height(bnds, ul, lr) ==
  LET bands == chunks_mut(bnds[1] * bnds[2], rows_per_band(bnds) * bnds[1])
  IN [j \in 1..Len(bands) |->
        LET i      == j - 1
            top    == rows_per_band(bnds) * i
            height == rows_per_band(bnds)
        IN BandTask(bands[j], <<bnds[1], height>>,
             pixel_to_point(bnds, <<0, top>>, ul, lr),
             pixel_to_point(bnds, <<bnds[1], top + height>>,
                            ul, lr))]

crossbeam_bands(bnds, ul, lr) ==
  LET bands == chunks_mut(bnds[1] * bnds[2], rows_per_band(bnds) * bnds[1])
  IN [j \in 1..Len(bands) |->
        LET i      == j - 1
            top    == rows_per_band(bnds) * i
            height == bands[j][2] \div bnds[1]
        IN BandTask(bands[j], <<bnds[1], height>>,
             pixel_to_point(bnds, <<0, top>>, ul, lr),
             pixel_to_point(bnds, <<bnds[1], top + height>>,
                            ul, lr))]

\* ---------------------------------------------------------- render_by_rayon
rayon_bands(bnds, ul, lr) ==
  LET bands == chunks_mut(bnds[1] * bnds[2], bnds[1])
  IN [j \in 1..Len(bands) |->
        LET i   == j - 1
            top == i
        IN BandTask(bands[j], <<bnds[1], 1>>,
             pixel_to_point(bnds, <<0, top>>, ul, lr),
             pixel_to_point(bnds, <<bnds[1], top + 1>>,
                            ul, lr))]

\* The sequential strategy: render itself, on the whole buffer, on the
\* calling thread.
single_band(bnds, ul, lr) ==
  <<BandTask(<<0, bnds[1] * bnds[2]>>, bnds, ul, lr)>>

\* ------------------------------------------------------------------ inputs
\* Inputs of a run (the parsed command line): image bounds up to MaxWidth x
\* MaxHeight holding at most MaxPixels pixels, a plane rectangle, a method.
MaxWidth == 2

MaxHeight == 9

MaxPixels == 9

\* At most MaxPanics band tasks fail in one run.
MaxPanics == 1

ImageBounds ==
  {b \in (1..MaxWidth) \X (1..MaxHeight) : b[1] * b[2] <= MaxPixels}

\* <<upper-left, lower-right>>: (-2, 0.5)..(-1.5, -1) and (-2, 1)..(1, -1).
PlaneRects ==
  { <<<<FromInt(-2), Lit(1, 1)>>, <<Lit(-3, 1), FromInt(-1)>>>>,
    <<<<FromInt(-2), FromInt(1)>>, <<FromInt(1), FromInt(-1)>>>> }

Methods == {"single", "crossbeam", "rayon"}

\* ------------------------------------------------- render, pass by pass
\* The band tasks the selected render method starts.
render_method(m, b, ul, lr) ==
  IF m = "crossbeam" THEN crossbeam_bands(b, ul, lr)
  ELSE IF m = "rayon" THEN rayon_bands(b, ul, lr)
  ELSE single_band(b, ul, lr)

\* The point the k-th pass of render's loops maps its pixel to.
render_point(bnds, ul, lr, k) ==
  LET row    == k \div bnds[1]
      column == k % bnds[1]
  IN pixel_to_point(bnds, <<column, row>>, ul, lr)

\* Every point a render call of any run evaluates, and escape_time(point, 255)
\* tabulated on them (escape_time is pure: each value is computed once).
RenderPoints ==
  UNION { UNION { { render_point(t.bounds, t.upper_left, t.lower_right, k) :
                      k \in 0..(t.bounds[1] * t.bounds[2] - 1) } :
                  t \in { render_method(m, b, r[1], r[2])[j] :
                            j \in 1..Len(render_method(m, b, r[1], r[2])) } } :
          <<m, b, r>> \in Methods \X ImageBounds \X PlaneRects }

EscapeTable == { <<c, escape_time(c, Limit)>> : c \in RenderPoints }

\* escape_time(point, 255), read from the table.
escape_time_255(c) == (CHOOSE p \in EscapeTable : p[1] = c)[2]

\* The byte the k-th pass of render's loops writes.
render_value(bnds, ul, lr, k) ==
  Shade(escape_time_255(render_point(bnds, ul, lr, k)))

\* slice_index into the whole buffer instead of the slice.
slice_index_whole(slice, i) == i + 1

\* `pixels[i]` on a slice <<offset, length>> of the buffer: the place in the
\* buffer (a sequence, indexed from 1).
slice_index(slice, i) == slice[1] + i + 1

\* The buffer after the k-th pass of the loops of band task t.
band_write(buf, t, k) ==
  [buf EXCEPT ![slice_index(t.slice, render_index(t.bounds, k))] =
                 render_value(t.bounds, t.upper_left, t.lower_right, k)]

\* The render call of band task t run to completion: every pass, in order.
RECURSIVE render_from(_, _, _)
render_from(buf, t, k) ==
  IF k >= t.bounds[1] * t.bounds[2] THEN buf
  ELSE render_from(band_write(buf, t, k), t, k + 1)

render(buf, t) == render_from(buf, t, 0)

\* -------------------------------------------------------------------- main
VARIABLES
  method,       \* args[5]: the render method main selected
  bounds,       \* <<width, height>> parsed from args[2]
  upper_left,   \* parsed from args[3]
  lower_right,  \* parsed from args[4]
  pc,           \* main: "start", "rendering", "returned", "written", "aborted"
  pixels,       \* the pixel buffer (<<>> before main allocates it)
  tasks,        \* the band tasks of the render call in progress
  image,        \* what write_image has encoded (<<>> before)
  call          \* the pure function applied last, with arguments and result

vars == <<method, bounds, upper_left, lower_right, pc, pixels, tasks, image, call>>

NoCall == [fn |-> "none"]

Init ==
  /\ method \in Methods
  /\ bounds \in ImageBounds
  /\ \E r \in PlaneRects : upper_left = r[1] /\ lower_right = r[2]
  /\ pc = "start"
  /\ pixels = <<>>
  /\ tasks = <<>>
  /\ image = <<>>
  /\ call = NoCall

\* main, lines 194-195: allocate the zeroed buffer and enter render_method.
CallRender ==
  /\ pc = "start"
  /\ pixels' = [k \in 1..(bounds[1] * bounds[2]) |-> 0]
  /\ tasks' = render_method(method, bounds, upper_left, lower_right)
  /\ pc' = "rendering"
  /\ UNCHANGED <<method, bounds, upper_left, lower_right, image, call>>

\* One pass of render's loops in band task j: `pixels[row * bounds.0 + column]
\* = ...` on the task's own slice; an index outside the slice panics.
BandStep(j) ==
  /\ pc = "rendering"
  /\ tasks[j].status = "running"
  /\ LET t    == tasks[j]
         idx  == render_index(t.bounds, t.next)
         last == t.next + 1 >= t.bounds[1] * t.bounds[2]
     IN IF idx >= t.slice[2]
        THEN /\ tasks' = [tasks EXCEPT ![j].status = "panicked"]
             /\ UNCHANGED pixels
        ELSE /\ pixels' = band_write(pixels, t, t.next)
             /\ tasks' = [tasks EXCEPT
                  ![j].next = t.next + 1,
                  ![j].status = IF last THEN "done" ELSE "running"]
  /\ UNCHANGED <<method, bounds, upper_left, lower_right, pc, image, call>>

Panicked(ts) == {j \in 1..Len(ts) : ts[j].status = "panicked"}

\* A spawned band task fails (a worker failure).
BandPanic(j) ==
  /\ pc = "rendering"
  /\ method # "single"
  /\ tasks[j].status = "running"
  /\ Cardinality(Panicked(tasks)) < MaxPanics
  /\ tasks' = [tasks EXCEPT ![j].status = "panicked"]
  /\ UNCHANGED <<method, bounds, upper_left, lower_right, pc, pixels, image, call>>

\* all_joined that waits for one task only.
one_joined(ts) == \E j \in 1..Len(ts) : ts[j].status # "running"

\* crossbeam::scope and for_each return once every task has ended.
all_joined(ts) == \A j \in 1..Len(ts) : ts[j].status # "running"

\* join_result that drops the tasks' panics.
join_result_ignored(ts) == "returned"

\* `.expect("error in crossbeam")`, and rayon's propagation: a panicked task
\* panics the caller.
join_result(ts) == IF Panicked(ts) # {} THEN "aborted" ELSE "returned"

Join ==
  /\ pc = "rendering"
  /\ all_joined(tasks)
  /\ pc' = join_result(tasks)
  /\ UNCHANGED <<method, bounds, upper_left, lower_right, pixels, tasks, image, call>>

\* main, lines 197-198: write_image(...).expect(...).
write_image ==
  /\ pc = "returned"
  /\ \/ pc' = "written" /\ image' = pixels
     \/ pc' = "aborted" /\ UNCHANGED image
  /\ UNCHANGED <<method, bounds, upper_left, lower_right, pixels, tasks, call>>

Next ==
  \/ CallRender
  \/ \E j \in 1..Len(tasks) : BandStep(j)
  \/ \E j \in 1..Len(tasks) : BandPanic(j)
  \/ Join
  \/ write_image

Spec == Init /\ [][Next]_vars

\* --------------------------------------------------- the pure functions
\* escape_time and pixel_to_point applied on their own, one call at a time.
\* Limits 0..MaxLimit, points on the grid of quarters in [-GridMax/4,
\* GridMax/4]^2.
MaxLimit == 8

GridMax == 8

EscapeInputs ==
  {<<Lit(a, 2), Lit(b, 2)>> : a \in (-GridMax)..GridMax, b \in (-GridMax)..GridMax}

\* The plane rectangles of the runs, (-1, 1)..(1, -1) of test_pixel_to_point
\* and (-2, 1)..(0.6, -1) of the usage example (0.6 taken as 39322 / 2^16).
MapRects ==
  PlaneRects \cup
  { <<<<FromInt(-1), FromInt(1)>>, <<FromInt(1), FromInt(-1)>>>>,
    <<<<FromInt(-2), FromInt(1)>>, <<Lit(39322, 16), FromInt(-1)>>>> }

TestBounds == <<100, 100>>

\* <<bounds, pixel, rectangle>>: every pixel from (0, 0) to (W, H), the corner
\* the dispatchers map included; for 100 x 100 the corners and the pixel of
\* test_pixel_to_point.
MapInputs ==
  { i \in ImageBounds \X ((0..MaxWidth) \X (0..MaxHeight)) \X MapRects :
      i[2][1] <= i[1][1] /\ i[2][2] <= i[1][2] }
  \cup { <<TestBounds, p, r>> :
           p \in {<<0, 0>>, <<25, 75>>, TestBounds}, r \in MapRects }

Zero == <<<<0, 0>>, <<0, 0>>>>

PureInit ==
  /\ pc = "pure"
  /\ method = "single"
  /\ bounds = <<1, 1>>
  /\ upper_left = Zero
  /\ lower_right = Zero
  /\ pixels = <<>>
  /\ tasks = <<>>
  /\ image = <<>>
  /\ call = NoCall

CallEscapeTime ==
  /\ pc = "pure"
  /\ call = NoCall
  /\ \E c \in EscapeInputs, limit \in 0..MaxLimit :
       call' = [fn |-> "escape_time", c |-> c, limit |-> limit,
                ret |-> escape_time(c, limit)]
  /\ UNCHANGED <<method, bounds, upper_left, lower_right, pc, pixels, tasks, image>>

CallPixelToPoint ==
  /\ pc = "pure"
  /\ call = NoCall
  /\ \E i \in MapInputs :
       call' = [fn |-> "pixel_to_point", bounds |-> i[1], pixel |-> i[2],
                upper_left |-> i[3][1], lower_right |-> i[3][2],
                ret |-> pixel_to_point(i[1], i[2], i[3][1], i[3][2])]
  /\ UNCHANGED <<method, bounds, upper_left, lower_right, pc, pixels, tasks, image>>

Return ==
  /\ pc = "pure"
  /\ call # NoCall
  /\ call' = NoCall
  /\ UNCHANGED <<method, bounds, upper_left, lower_right, pc, pixels, tasks, image>>

PureNext == CallEscapeTime \/ CallPixelToPoint \/ Return

SpecPure == PureInit /\ [][PureNext]_vars

\* ----------------------------------------------------------------- claims
Parallel == method \in {"crossbeam", "rayon"}

ZeroBuffer == [k \in 1..(bounds[1] * bounds[2]) |-> 0]

\* The band tasks ts run one after the other, each to completion.
RECURSIVE render_in_order(_, _, _)
render_in_order(buf, ts, j) ==
  IF j > Len(ts) THEN buf ELSE render_in_order(render(buf, ts[j]), ts, j + 1)

\* What the sequential strategy leaves in the buffer for this run's inputs.
SequentialImage ==
  render(ZeroBuffer, single_band(bounds, upper_left, lower_right)[1])

\* C1: whatever the method, a render call that returns leaves in the buffer
\* exactly the bytes the sequential strategy computes for the same bounds and
\* plane rectangle.
C1_StrategiesAgree == pc = "returned" => pixels = SequentialImage

\* C2: in a parallel render the slices of two distinct band tasks share no
\* buffer index.
Indices(t) == {slice_index(t.slice, i) : i \in 0..(t.slice[2] - 1)}

C2_DisjointBands ==
  Parallel =>
    \A i, j \in 1..Len(tasks) :
      i # j => Indices(tasks[i]) \cap Indices(tasks[j]) = {}

C2_Witness ==
  /\ method = "crossbeam" /\ pc = "rendering"
  /\ \E i, j \in 1..Len(tasks) :
       /\ i # j
       /\ tasks[i].status = "running" /\ tasks[i].next = 1
       /\ tasks[j].status = "running" /\ tasks[j].next = 1

\* C3: a parallel render that returns has left in the buffer what its band
\* tasks leave when run one after the other: the interleaving of their pixel
\* writes does not show.
C3_OrderIndependent ==
  (Parallel /\ pc = "returned") =>
    pixels = render_in_order(ZeroBuffer, tasks, 1)

\* A crossbeam render of four bands or more has returned, and the buffer
\* holds different bytes (interior, escaped at once, escaped later).
C3_Witness ==
  /\ method = "crossbeam" /\ pc = "returned" /\ Len(tasks) >= 4
  /\ \A j \in 1..Len(tasks) : tasks[j].status = "done"
  /\ \E k \in 1..Len(pixels) : pixels[k] = 0
  /\ \E k \in 1..Len(pixels) : pixels[k] \in 1..254
  /\ \E k \in 1..Len(pixels) : pixels[k] = 255

\* C4: once the render call has returned, and so whenever write_image gets
\* the buffer, every band task has made all its passes and ended.
Finished(t) == t.status = "done" /\ t.next = t.bounds[1] * t.bounds[2]

C4_ReturnAfterAllBands ==
  /\ pc \in {"returned", "written"} => \A j \in 1..Len(tasks) : Finished(tasks[j])
  /\ image # <<>> => \A j \in 1..Len(tasks) : Finished(tasks[j])

C4_Witness ==
  /\ method = "crossbeam" /\ pc = "written" /\ Len(tasks) >= 4
  /\ image = pixels

\* C5: a crossbeam render gives every band but the last ceil(H / 8) rows, and
\* the last band at most that many.
CeilDiv(a, b) == (a + b - 1) \div b

C5_BandRows ==
  (method = "crossbeam" /\ pc # "start") =>
    \A j \in 1..Len(tasks) :
      IF j < Len(tasks)
      THEN tasks[j].bounds[2] = CeilDiv(bounds[2], threads)
      ELSE tasks[j].bounds[2] <= CeilDiv(bounds[2], threads)

\* C7: a render call that has ended has written, at every row * w + col of
\* its slice, 255 - count when the point of (col, row) escaped after count
\* iterations (limit 255), and 0 when it did not escape.
C7_RenderFills ==
  \A j \in 1..Len(tasks) :
    tasks[j].status = "done" =>
      LET t == tasks[j]
      IN \A row \in 0..(t.bounds[2] - 1), col \in 0..(t.bounds[1] - 1) :
           LET e == escape_time_255(pixel_to_point(t.bounds, <<col, row>>,
                                                   t.upper_left, t.lower_right))
           IN pixels[t.slice[1] + row * t.bounds[1] + col + 1] =
                IF e = None THEN 0 ELSE 255 - e

\* A sequential render of a 2 x 2 image ended with an interior pixel (0) and
\* pixels that escaped at once (255) and later.
C7_Witness ==
  /\ method = "single" /\ pc = "returned" /\ bounds = <<2, 2>>
  /\ \E k \in 1..Len(pixels) : pixels[k] = 0
  /\ \E k \in 1..Len(pixels) : pixels[k] = 255
  /\ \E k \in 1..Len(pixels) : pixels[k] \in 1..254

\* C9: a crossbeam render one of whose band tasks panicked never returns to
\* main and nothing is written: main aborts, for good, and the panicked band
\* is not run again.
C9_PanicIsFatal ==
  /\ [](method = "crossbeam" /\ Panicked(tasks) # {}
          => pc \in {"rendering", "aborted"} /\ image = <<>>)
  /\ [][\A j \in 1..Len(tasks) :
          tasks[j].status = "panicked"
            => tasks'[j].status = "panicked" /\ tasks'[j].next = tasks[j].next]_vars
  /\ [][pc = "aborted" => pc' = "aborted"]_vars
  /\ [][(method = "crossbeam" /\ pc = "rendering" /\ pc' # "rendering"
           /\ Panicked(tasks) # {}) => pc' = "aborted"]_vars

C9_Witness ==
  /\ method = "crossbeam" /\ pc = "aborted" /\ image = <<>>
  /\ Panicked(tasks) # {}
  /\ \E j \in 1..Len(tasks) : tasks[j].status = "done"

\* C10: in a parallel render of any W x H image, 1 x 1 included, the chunk
\* size is positive, every band holds W times its height bytes with height at
\* least 1, every pass of a band indexes inside the band's slice, and a band
\* that ended has made all its passes.
ChunkSize ==
  IF method = "crossbeam" THEN rows_per_band(bounds) * bounds[1] ELSE bounds[1]

C10_PartitionSound ==
  (Parallel /\ pc # "start") =>
    /\ ChunkSize > 0
    /\ Len(tasks) >= 1
    /\ \A j \in 1..Len(tasks) :
         LET t == tasks[j]
         IN /\ t.bounds[1] = bounds[1]
            /\ t.bounds[2] >= 1
            /\ t.slice[2] = bounds[1] * t.bounds[2]
            /\ \A k \in 0..(t.bounds[1] * t.bounds[2] - 1) :
                 render_index(t.bounds, k) \in 0..(t.slice[2] - 1)
            /\ t.status = "done" => t.next = t.slice[2]
            /\ t.status = "panicked" => t.next < t.slice[2]

C10_Witness ==
  /\ bounds = <<1, 1>> /\ method = "rayon" /\ pc = "written"
  /\ Len(image) = 1

\* C6: escape_time(c, L) is Some(i) exactly when i < L is the first 0-based
\* iteration of z <- z*z + c from z = 0 with |z|^2 > 4, and None when no
\* iteration below L has it; for L = 0 it is None.
RECURSIVE Orbit(_, _)
Orbit(c, n) ==
  IF n = 0 THEN Zero
  ELSE LET z == Orbit(c, n - 1) IN CAdd(CMul(z, z), c)

\* |z|^2 > 4 at iteration j (the first iteration is 0).
EscapedAt(c, j) == FGt(norm_sqr(Orbit(c, j + 1)), FromInt(4))

C6_EscapeTime ==
  call.fn = "escape_time" =>
    /\ call.limit = 0 => call.ret = None
    /\ call.ret # None =>
         /\ call.ret \in 0..(call.limit - 1)
         /\ EscapedAt(call.c, call.ret)
         /\ \A j \in 0..(call.ret - 1) : ~EscapedAt(call.c, j)
    /\ call.ret = None => \A j \in 0..(call.limit - 1) : ~EscapedAt(call.c, j)

\* A point that escapes at the third iteration or later, below the limit.
C6_Witness ==
  /\ call.fn = "escape_time"
  /\ call.ret >= 2
  /\ call.ret < call.limit - 1

\* C8: pixel_to_point.  A float <<m, e>> scaled to the unit 2^E is m * 2^(e-E).
Scaled(a, E) == a[1] * 2^(a[2] - E)

MinOf(S) == CHOOSE v \in S : \A w \in S : v <= w

MaxOf(S) == CHOOSE v \in S : \A w \in S : v >= w

\* got is within 2^(3 - MantissaBits) * max(|from|, |to|) of
\* from + k * (to - from) / n, computed exactly.
Near(got, from, to, k, n) ==
  LET E == MinOf({got[2], from[2], to[2]})
      G == Scaled(got, E)
      F == Scaled(from, E)
      T == Scaled(to, E)
  IN 2^(MantissaBits - 3) * Abs(G * n - (F * n + k * (T - F)))
       <= MaxOf({Abs(F), Abs(T)}) * n

MapsByFormula ==
  /\ Near(call.ret[1], call.upper_left[1], call.lower_right[1],
          call.pixel[1], call.bounds[1])
  /\ Near(call.ret[2], call.upper_left[2], call.lower_right[2],
          call.pixel[2], call.bounds[2])

MapsTestExample ==
  (/\ call.bounds = TestBounds /\ call.pixel = <<25, 75>>
   /\ call.upper_left = <<FromInt(-1), FromInt(1)>>
   /\ call.lower_right = <<FromInt(1), FromInt(-1)>>)
    => call.ret = <<Lit(-1, 1), Lit(-1, 1)>>

\* C8 as claimed: the formula, (0, 0) to upperLeft, (W, H) to lowerRight,
\* the test's example.
C8_CornersExact ==
  call.fn = "pixel_to_point" =>
    /\ MapsByFormula
    /\ call.pixel = <<0, 0>> => call.ret = call.upper_left
    /\ call.pixel = call.bounds => call.ret = call.lower_right
    /\ MapsTestExample

\* C8 as amended: the formula with each operation rounded, so the result is
\* within rounding of the exact value; (0, 0) maps to upperLeft exactly,
\* (W, H) to lowerRight only within that rounding; the test's example is exact.
C8_PixelToPoint ==
  call.fn = "pixel_to_point" =>
    /\ MapsByFormula
    /\ call.pixel = <<0, 0>> => call.ret = call.upper_left
    /\ MapsTestExample

\* (W, H) mapped next to lowerRight, not onto it.
C8_Witness ==
  /\ call.fn = "pixel_to_point"
  /\ call.pixel = call.bounds
  /\ call.ret # call.lower_right
  /\ MapsByFormula
====
